---- MODULE Spec2Model ----
(***************************************************************************)
(* Authentication and session lifecycle of the sociofi backend:            *)
(* AuthService (login, refresh, logout, invalidateAllSessions, password    *)
(* reset), JWTService, the requireAuth middleware and UserService's        *)
(* updateUser, over the Mongo collections User, RefreshToken,              *)
(* PasswordReset and AuditLog.                                             *)
(*                                                                         *)
(* Every request is an asynchronous task on the event loop: one step of    *)
(* the model is the code between two awaits of one handler (one store or   *)
(* mail call with the synchronous code that follows it).  Two request      *)
(* slots run concurrently and interleave at the awaits.                    *)
(***************************************************************************)
EXTENDS Integers, Sequences, FiniteSets, TLC

(* ------------------------------ bounds -------------------------------- *)

\* Number of events (requests started, clock advances, sweeps) in a behaviour.
MaxEvents == 4
\* The same, when two clients send requests concurrently.
MaxConcEvents == 3
\* the token round trip: token versions 0..MaxVersion, clock 0..MaxClock
MaxVersion == 2
MaxClock == 2

(* ------------------------- program constants -------------------------- *)
\* Time is counted in units of 15 minutes.

\* accessTokenExpiry = '15m'
AccessTokenExpiry == 1
\* refreshTokenExpiry = '7d', getRefreshTokenExpiry(): now + 7 days
RefreshTokenExpiry == 672
\* expiresIn '1h', getPasswordResetExpiry(): now + 1 hour
PasswordResetExpiry == 4

Reqs == {1, 2}
Users == {"u1", "u2"}
Passwords == {"p1", "p2"}
NoUser == "nouser"

\* email is unique per user and never updated
EmailOf(u) == <<"mail", u>>
Emails == {EmailOf(u) : u \in Users} \cup {<<"mail", "nobody">>}

(* ------------------------------ state --------------------------------- *)

VARIABLES
    users,          \* User collection: id -> [is_active, token_version, password_hash, role]
    refreshTokens,  \* RefreshToken collection: set of [user_id, token, expires_at]
    passwordResets, \* PasswordReset collection: set of [user_id, token, used, used_at, expires_at]
    auditLog,       \* AuditLog collection, in insertion order
    mails,          \* calls of transporter.sendMail: set of [to, token, delivered]
    now,            \* the clock (new Date(), jwt's clock)
    nextJti,        \* source of uuidv4(): the next unused identifier
    events,         \* number of events so far
    clients,        \* number of requests that may be in flight together
    req,            \* the request slots: handler, position, locals, response
    issued,         \* history: access and refresh tokens handed to callers
    rotated,        \* history: refresh tokens for which a refresh call succeeded
    invalidated,    \* history: tokens issued for u before a completed invalidateAllSessions(u)
    consumed,       \* history: reset tokens for which a resetPassword call succeeded
    resetKilled,    \* history: tokens issued for u before a successful resetPassword of u
    chain,          \* history: the tokens returned by a refresh that was the latest event
    unswept         \* history: the RefreshToken collection had cleanupExpiredTokens never run

vars == <<users, refreshTokens, passwordResets, auditLog, mails, now, nextJti,
          events, clients, req, issued, rotated, invalidated, consumed, resetKilled, chain,
          unswept>>

(* ------------------------------ errors -------------------------------- *)

\* class UnauthorizedError extends HttpError: statusCode 401
UnauthorizedError(msg) == [name |-> "UnauthorizedError", statusCode |-> 401, message |-> msg]
\* class ForbiddenError extends HttpError: statusCode 403
ForbiddenError(msg) == [name |-> "ForbiddenError", statusCode |-> 403, message |-> msg]
\* a raw Error (jwt wrapper, nodemailer): carries no statusCode
RawError(msg) == [name |-> "Error", statusCode |-> 0, message |-> msg]
\* the handler returned normally
Returned == [name |-> "ok", statusCode |-> 200, message |-> "ok"]
Pending == [name |-> "pending", statusCode |-> 0, message |-> ""]

\* errorHandler: an HttpError answers with its statusCode, any other Error with 500
ErrorHandler(err) ==
    IF err.name \in {"UnauthorizedError", "ForbiddenError"} THEN err.statusCode
    ELSE IF err.name = "ok" THEN err.statusCode
    ELSE 500

(* ------------------------------- jwt ---------------------------------- *)

NoToken == [secret |-> "none", userId |-> NoUser, email |-> <<>>, role |-> "none",
            tokenVersion |-> 0, jti |-> 0, exp |-> 0, iss |-> "none", aud |-> "none"]

\* issuer and audience, the same in every sign and verify call
Issuer == "store-cataloguer-api"
Audience == "store-cataloguer-client"

\* mutant: expiresIn is read as milliseconds, the token is expired when it is made
MutSign(secret, userId, email, role, tokenVersion, jti, ttl) ==
    [secret |-> secret, userId |-> userId, email |-> email, role |-> role,
     tokenVersion |-> tokenVersion, jti |-> jti, exp |-> now,
     iss |-> Issuer, aud |-> Audience]

\* jwt.sign(payload, secret, {expiresIn, issuer, audience, jwtid})
Sign(secret, userId, email, role, tokenVersion, jti, ttl) ==
    [secret |-> secret, userId |-> userId, email |-> email, role |-> role,
     tokenVersion |-> tokenVersion, jti |-> jti, exp |-> now + ttl,
     iss |-> Issuer, aud |-> Audience]

\* jwt.verify(token, secret, {issuer, audience}): signature and exp
JwtVerifies(token, secret) ==
    /\ token.secret = secret
    /\ now < token.exp
    /\ token.iss = Issuer /\ token.aud = Audience

\* mutant: the access token is signed with the refresh secret
MutGenerateAccessToken(u, email, role, tv) ==
    Sign("refresh", u, email, role, tv, 0, AccessTokenExpiry)

GenerateAccessToken(u, email, role, tv) == Sign("access", u, email, role, tv, 0, AccessTokenExpiry)

GenerateRefreshToken(u, tv, jti) == Sign("refresh", u, <<>>, "none", tv, jti, RefreshTokenExpiry)

GeneratePasswordResetToken(u, tv, jti) == Sign("access", u, <<>>, "none", tv, jti, PasswordResetExpiry)

VerifyAccessToken(token) == JwtVerifies(token, "access")

\* the JWTPayload that verifyAccessToken returns: the claims the token carries
DecodeAccessToken(token) ==
    [userId |-> token.userId, email |-> token.email, role |-> token.role,
     tokenVersion |-> token.tokenVersion]

\* mutant: the signature is not checked
MutVerifyRefreshToken(token) == now < token.exp

VerifyRefreshToken(token) == JwtVerifies(token, "refresh")

VerifyPasswordResetToken(token) == JwtVerifies(token, "access")

\* a token with the claims of t signed with a key the server does not hold
Forge(t) == [t EXCEPT !.secret = "forged"]

(* ------------------------------ argon2 -------------------------------- *)

Argon2Hash(password) == <<"argon2id", password>>
Argon2Verify(hash, password) == hash = Argon2Hash(password)

(* --------------------------- request slots ---------------------------- *)

Roles == {"admin", "manager", "viewer"}

\* Partial<{ role, is_active }>: a field that is not given is "unset"
NoUpdate == [role |-> "unset", is_active |-> "unset"]
Updates == {[role |-> "unset", is_active |-> a] : a \in {"true", "false"}} \cup
           {[role |-> ro, is_active |-> "unset"] : ro \in Roles}
\* updateUserSchema: role, is_active or both
AllUpdates == {[role |-> ro, is_active |-> a] :
                  ro \in Roles \cup {"unset"}, a \in {"unset", "true", "false"}} \ {NoUpdate}
Flag(b) == IF b THEN "true" ELSE "false"

Idle == [op |-> "none", pc |-> "done", tok |-> NoToken, email |-> <<>>, password |-> "",
         user |-> NoUser, tv |-> 0, role |-> "none", jti |-> 0, exp |-> 0,
         access |-> NoToken, refresh |-> NoToken,
         target |-> NoUser, upd |-> NoUpdate, tgt |-> NoUpdate, snap |-> {}, out |-> {}, result |-> Pending,
         hist |-> {}, solo |-> TRUE, pre |-> FALSE]

InFlight(r) == req[r].pc # "done"

EventLimit == IF clients = 1 THEN MaxEvents ELSE MaxConcEvents

\* a request is served by the first free task slot
FreeSlot(r) == /\ ~InFlight(r)
               /\ \A q \in Reqs : q < r => InFlight(q)

\* a request arrives and is given slot r
Arrive(r) ==
    /\ FreeSlot(r)
    /\ r <= clients
    /\ events < EventLimit
    /\ events' = events + 1
    /\ clients' = clients

\* a step of one task is seen by the tasks in flight beside it (history: solo);
\* a slot whose response went out is free again
Disturb(rec) == IF rec.pc # "done" THEN [rec EXCEPT !.solo = FALSE] ELSE Idle

SetReq(r, rec) == req' = [q \in Reqs |-> IF q = r THEN rec ELSE Disturb(req[q])]

\* the handler of slot r ends: its locals are dropped, its response is kept
Finish(rec, result, out) ==
    [Idle EXCEPT !.op = rec.op, !.tok = rec.tok, !.password = rec.password,
                 !.user = rec.user, !.tv = rec.tv,
                 !.result = result, !.out = out,
                 !.hist = rec.hist, !.solo = rec.solo, !.pre = rec.pre]

\* history flags of a token at the start of a request that carries it
TokenHistory(t) ==
    (IF t \in rotated THEN {"rotated"} ELSE {}) \cup
    (IF t \in invalidated THEN {"invalidated"} ELSE {}) \cup
    (IF t \in consumed THEN {"consumed"} ELSE {}) \cup
    (IF t \in resetKilled THEN {"resetKilled"} ELSE {}) \cup
    (IF t \in chain THEN {"chained"} ELSE {})

\* tokens a caller can present: those handed out, those mailed, and forgeries
Mailed == {m.token : m \in {x \in mails : x.delivered}}
Presentable == issued \cup Mailed \cup {Forge(t) : t \in issued \cup Mailed}

(* ------------------------------ store --------------------------------- *)

\* mutant: the filter does not ask for is_active
MutFindActiveUserByEmail(email) == {u \in Users : EmailOf(u) = email}

\* UserModel.findOne({ email, is_active: true })
FindActiveUserByEmail(email) ==
    {u \in Users : EmailOf(u) = email /\ users[u].is_active}

\* UserModel.findOne({ _id, is_active: true })
FindActiveUserById(id) ==
    {u \in Users : u = id /\ users[u].is_active}

\* RefreshTokenModel.findOne({ token: jti, user_id, expires_at: { $gt: new Date() } })
FindStoredToken(jti, userId) ==
    {rec \in refreshTokens : rec.token = jti /\ rec.user_id = userId /\ rec.expires_at > now}

\* mutant: the record is not deleted
MutDeleteOneToken(jti) == refreshTokens

\* RefreshTokenModel.deleteOne({ token: jti })
DeleteOneToken(jti) == {rec \in refreshTokens : rec.token # jti}

\* RefreshTokenModel.deleteMany({ user_id })
DeleteManyTokens(userId) == {rec \in refreshTokens : rec.user_id # userId}

\* mutant: the record is not written
MutCreateToken(userId, jti, exp) == refreshTokens

\* RefreshTokenModel.create({ user_id, token: jti, expires_at })
CreateToken(userId, jti, exp) ==
    refreshTokens \cup {[user_id |-> userId, token |-> jti, expires_at |-> exp]}

\* AuditLogModel.create({ actor_id, action, target_table: "users", target_id, meta })
LogActivity(actorId, action, targetId) ==
    Append(auditLog, [actor_id |-> actorId, action |-> action, target_id |-> targetId])

\* history: the same store calls on the collection that is never swept
CreateIn(st, userId, jti, exp) == st \cup {[user_id |-> userId, token |-> jti, expires_at |-> exp]}
DeleteOneIn(st, jti) == {rec \in st : rec.token # jti}
DeleteManyIn(st, userId) == {rec \in st : rec.user_id # userId}

(* ------------------------------ login --------------------------------- *)

\* history: which kind of login attempt this is, in the current state
LoginCase(email, password) ==
    IF \A u \in Users : EmailOf(u) # email THEN "nouser"
    ELSE IF \E u \in Users : EmailOf(u) = email /\ ~users[u].is_active THEN "inactive"
    ELSE IF \E u \in Users : EmailOf(u) = email /\ users[u].password_hash # Argon2Hash(password)
         THEN "badpw"
    ELSE "good"

\* findOne, argon2.verify, the two tokens are generated
LoginStart(r, email, password) ==
    /\ Arrive(r)
    /\ LET found == FindActiveUserByEmail(email)
           base == [Idle EXCEPT !.op = "login", !.email = email, !.password = password,
                                !.hist = {LoginCase(email, password)}]
       IN IF found = {}
          THEN /\ SetReq(r, Finish(base, UnauthorizedError("Invalid credentials"), {}))
               /\ UNCHANGED nextJti
          ELSE LET u == CHOOSE x \in found : TRUE
               IN IF ~Argon2Verify(users[u].password_hash, password)
                  THEN /\ SetReq(r, Finish([base EXCEPT !.user = u],
                                           UnauthorizedError("Invalid credentials"), {}))
                       /\ UNCHANGED nextJti
                  ELSE /\ SetReq(r, [base EXCEPT
                            !.pc = "create", !.user = u,
                            !.tv = users[u].token_version, !.role = users[u].role,
                            !.jti = nextJti, !.exp = now + RefreshTokenExpiry,
                            !.access = GenerateAccessToken(u, EmailOf(u), users[u].role, users[u].token_version),
                            !.refresh = GenerateRefreshToken(u, users[u].token_version, nextJti)])
                       /\ nextJti' = nextJti + 1
    /\ chain' = {}
    /\ UNCHANGED <<users, refreshTokens, passwordResets, auditLog, mails, now,
                   issued, rotated, invalidated, consumed, resetKilled, unswept>>

\* RefreshTokenModel.create
LoginCreate(r) ==
    /\ req[r].op = "login" /\ req[r].pc = "create"
    /\ refreshTokens' = CreateToken(req[r].user, req[r].jti, req[r].exp)
    /\ unswept' = CreateIn(unswept, req[r].user, req[r].jti, req[r].exp)
    /\ SetReq(r, [req[r] EXCEPT !.pc = "audit", !.hist = @ \cup {"persisted"}])
    /\ chain' = {}
    /\ UNCHANGED <<users, passwordResets, auditLog, mails, now, nextJti, events, clients,
                   issued, rotated, invalidated, consumed, resetKilled>>

\* logActivity, the last_login update, return
LoginAudit(r) ==
    /\ req[r].op = "login" /\ req[r].pc = "audit"
    /\ auditLog' = LogActivity(req[r].user, "login", req[r].user)
    /\ SetReq(r, Finish(req[r], Returned, {req[r].access, req[r].refresh}))
    /\ issued' = issued \cup {req[r].access, req[r].refresh}
    /\ chain' = {}
    /\ UNCHANGED <<users, refreshTokens, passwordResets, mails, now, nextJti, events, clients,
                   rotated, invalidated, consumed, resetKilled, unswept>>

(* ----------------------------- refresh -------------------------------- *)

\* history: what the data model calls a valid refresh token, in the current state
RefreshTokenValid(t) ==
    /\ t.secret = "refresh"
    /\ now < t.exp
    /\ \E rec \in refreshTokens :
          rec.token = t.jti /\ rec.user_id = t.userId /\ now < rec.expires_at
    /\ t.userId \in Users
    /\ users[t.userId].is_active
    /\ users[t.userId].token_version = t.tokenVersion

\* history: the store holds the record of t, and its expires_at has passed
StaleRecord(t) ==
    \E rec \in refreshTokens :
        rec.token = t.jti /\ rec.user_id = t.userId /\ ~(rec.expires_at > now)

\* verifyRefreshToken, RefreshTokenModel.findOne
RefreshStart(r, t) ==
    /\ Arrive(r)
    /\ LET base == [Idle EXCEPT !.op = "refresh", !.tok = t,
                                !.hist = TokenHistory(t) \cup
                                         (IF StaleRecord(t) THEN {"stale"} ELSE {}),
                                !.pre = RefreshTokenValid(t)]
       IN IF ~VerifyRefreshToken(t)
          THEN SetReq(r, Finish(base, UnauthorizedError("Invalid refresh token"), {}))
          ELSE IF FindStoredToken(t.jti, t.userId) = {}
          THEN SetReq(r, Finish(base, UnauthorizedError("Invalid refresh token"), {}))
          ELSE SetReq(r, [base EXCEPT !.pc = "user"])
    /\ chain' = {}
    /\ UNCHANGED <<users, refreshTokens, passwordResets, auditLog, mails, now, nextJti,
                   issued, rotated, invalidated, consumed, resetKilled, unswept>>

\* UserModel.findOne({ _id: payload.userId, is_active: true }), the version check
RefreshUser(r) ==
    /\ req[r].op = "refresh" /\ req[r].pc = "user"
    /\ LET t == req[r].tok
           found == FindActiveUserById(t.userId)
       IN IF found = {} \/ users[t.userId].token_version # t.tokenVersion
          THEN SetReq(r, [req[r] EXCEPT !.pc = "reject"])
          ELSE SetReq(r, [req[r] EXCEPT !.pc = "rotate", !.user = t.userId,
                                        !.tv = users[t.userId].token_version,
                                        !.role = users[t.userId].role])
    /\ chain' = {}
    /\ UNCHANGED <<users, refreshTokens, passwordResets, auditLog, mails, now, nextJti,
                   events, clients, issued, rotated, invalidated, consumed, resetKilled, unswept>>

\* deleteOne of the record of a token whose user is gone or whose version is stale
RefreshReject(r) ==
    /\ req[r].op = "refresh" /\ req[r].pc = "reject"
    /\ refreshTokens' = DeleteOneToken(req[r].tok.jti)
    /\ unswept' = DeleteOneIn(unswept, req[r].tok.jti)
    /\ SetReq(r, Finish([req[r] EXCEPT !.hist = @ \cup {"mismatch"}],
                         UnauthorizedError("Invalid refresh token"), {}))
    /\ chain' = {}
    /\ UNCHANGED <<users, passwordResets, auditLog, mails, now, nextJti,
                   events, clients, issued, rotated, invalidated, consumed, resetKilled>>

\* rotation: deleteOne of the old record, then the new pair is generated
RefreshRotate(r) ==
    /\ req[r].op = "refresh" /\ req[r].pc = "rotate"
    /\ refreshTokens' = DeleteOneToken(req[r].tok.jti)
    /\ unswept' = DeleteOneIn(unswept, req[r].tok.jti)
    /\ SetReq(r, [req[r] EXCEPT
            !.pc = "create", !.jti = nextJti, !.exp = now + RefreshTokenExpiry,
            !.hist = @ \cup (IF \E rec \in refreshTokens : rec.token = req[r].tok.jti
                             THEN {"deleted"} ELSE {}),
            !.access = GenerateAccessToken(req[r].user, EmailOf(req[r].user), req[r].role, req[r].tv),
            !.refresh = GenerateRefreshToken(req[r].user, req[r].tv, nextJti)])
    /\ nextJti' = nextJti + 1
    /\ chain' = {}
    /\ UNCHANGED <<users, passwordResets, auditLog, mails, now,
                   events, clients, issued, rotated, invalidated, consumed, resetKilled>>

\* RefreshTokenModel.create of the new record, return of the new pair
RefreshCreate(r) ==
    /\ req[r].op = "refresh" /\ req[r].pc = "create"
    /\ refreshTokens' = CreateToken(req[r].user, req[r].jti, req[r].exp)
    /\ unswept' = CreateIn(unswept, req[r].user, req[r].jti, req[r].exp)
    /\ SetReq(r, Finish([req[r] EXCEPT !.hist = @ \cup {"persisted"} \cup
                              (IF req[r].tok \in rotated THEN {"second"} ELSE {})],
                         Returned, {req[r].access, req[r].refresh}))
    /\ issued' = issued \cup {req[r].access, req[r].refresh}
    /\ rotated' = rotated \cup {req[r].tok}
    /\ chain' = IF req[r].solo THEN {req[r].access, req[r].refresh} ELSE {}
    /\ UNCHANGED <<users, passwordResets, auditLog, mails, now, nextJti,
                   events, clients, invalidated, consumed, resetKilled>>

(* ------------------------------ logout -------------------------------- *)

\* mutant: the catch rethrows
MutLogoutCatch(err) == err

\* catch { } of logout: whatever was thrown inside the try is dropped
LogoutCatch(err) == Returned

\* verifyRefreshToken, RefreshTokenModel.deleteOne; an invalid token is ignored
LogoutStart(r, t) ==
    /\ Arrive(r)
    /\ LET base == [Idle EXCEPT !.op = "logout", !.tok = t, !.hist = TokenHistory(t)]
       IN IF ~VerifyRefreshToken(t)
          THEN /\ SetReq(r, Finish(base, LogoutCatch(RawError("Invalid refresh token")), {}))
               /\ UNCHANGED <<refreshTokens, unswept>>
          ELSE /\ SetReq(r, [base EXCEPT !.pc = "audit", !.user = t.userId])
               /\ refreshTokens' = DeleteOneToken(t.jti)
               /\ unswept' = DeleteOneIn(unswept, t.jti)
    /\ chain' = {}
    /\ UNCHANGED <<users, passwordResets, auditLog, mails, now, nextJti,
                   issued, rotated, invalidated, consumed, resetKilled>>

\* logActivity(userId, "logout")
LogoutAudit(r) ==
    /\ req[r].op = "logout" /\ req[r].pc = "audit"
    /\ auditLog' = LogActivity(req[r].user, "logout", req[r].user)
    /\ SetReq(r, Finish(req[r], Returned, {}))
    /\ chain' = {}
    /\ UNCHANGED <<users, refreshTokens, passwordResets, mails, now, nextJti, events, clients,
                   issued, rotated, invalidated, consumed, resetKilled, unswept>>

(* ---------------------------- requireAuth ----------------------------- *)

\* what requireAuth answers for a bearer token in the current state
RequireAuthResult(t) ==
    IF t = NoToken THEN UnauthorizedError("Access token required")
    ELSE IF ~VerifyAccessToken(t) THEN RawError("Invalid access token")
    ELSE IF t.userId \notin Users THEN UnauthorizedError("User not found")
    ELSE IF ~users[t.userId].is_active THEN UnauthorizedError("Account is deactivated")
    ELSE IF users[t.userId].token_version # t.tokenVersion
         THEN UnauthorizedError("Token has been invalidated")
    ELSE Returned

\* a request to a route guarded by requireAuth alone
RequireAuth(r, t) ==
    /\ Arrive(r)
    /\ LET base == [Idle EXCEPT !.op = "auth", !.tok = t, !.hist = TokenHistory(t)]
           res == RequireAuthResult(t)
       IN IF res = Returned
          THEN SetReq(r, Finish([base EXCEPT !.user = t.userId], Returned, {}))
          ELSE SetReq(r, Finish(base, res, {}))
    /\ chain' = {}
    /\ UNCHANGED <<users, refreshTokens, passwordResets, auditLog, mails, now, nextJti,
                   issued, rotated, invalidated, consumed, resetKilled, unswept>>

(* ---------------------------- requireRole ----------------------------- *)

NoIdentity == [id |-> NoUser, role |-> "none"]

\* mutant: the role is taken from the token's payload
MutResolveIdentity(t) == [id |-> t.userId, role |-> t.role]

\* req.user = { id, email, role, tokenVersion } built from the user document
ResolveIdentity(t) == [id |-> t.userId, role |-> users[t.userId].role]

\* optionalAuth: the identity is attached when the token is good, nothing is thrown
OptionalAuth(t) ==
    IF /\ t # NoToken
       /\ VerifyAccessToken(t)
       /\ t.userId \in Users
       /\ users[t.userId].is_active
       /\ users[t.userId].token_version = t.tokenVersion
    THEN ResolveIdentity(t)
    ELSE NoIdentity

\* requireRole(allowedRoles) on the identity the middleware before it attached
RequireRole(identity, allowedRoles) ==
    IF identity = NoIdentity THEN UnauthorizedError("Authentication required")
    ELSE IF identity.role \notin allowedRoles THEN ForbiddenError("Insufficient permissions")
    ELSE Returned

\* requireAdmin, requireManagerOrAdmin
RequireAdmin == {"admin"}
RequireManagerOrAdmin == {"admin", "manager"}

\* a request to a route guarded by requireAuth (or optionalAuth) and requireRole
RoleRoute(r, t, allowedRoles, optional) ==
    /\ Arrive(r)
    /\ LET base == [Idle EXCEPT !.op = "role", !.tok = t,
                       !.hist = TokenHistory(t)
                                \cup (IF optional THEN {"optional"} ELSE {})
                                \cup (IF allowedRoles = RequireAdmin THEN {"adminOnly"} ELSE {})]
           res == RequireAuthResult(t)
           identity == IF optional THEN OptionalAuth(t)
                       ELSE IF res = Returned THEN ResolveIdentity(t) ELSE NoIdentity
       IN IF ~optional /\ res # Returned
          THEN SetReq(r, Finish(base, res, {}))
          ELSE SetReq(r, Finish([base EXCEPT !.user = identity.id,
                                             !.pre = identity # NoIdentity],
                                RequireRole(identity, allowedRoles), {}))
    /\ chain' = {}
    /\ UNCHANGED <<users, refreshTokens, passwordResets, auditLog, mails, now, nextJti,
                   issued, rotated, invalidated, consumed, resetKilled, unswept>>

(* ----------------------- invalidateAllSessions ------------------------ *)

\* history: the tokens handed out for user u so far
IssuedFor(u) == {t \in issued : t.userId = u}

\* POST /api/auth/invalidate-sessions: requireAuth, then the controller calls the service
InvalidateStart(r, t) ==
    /\ Arrive(r)
    /\ LET base == [Idle EXCEPT !.op = "invalidate", !.tok = t, !.hist = TokenHistory(t)]
           res == RequireAuthResult(t)
       IN IF res = Returned
          THEN SetReq(r, [base EXCEPT !.pc = "inc1", !.user = t.userId,
                                      !.tv = users[t.userId].token_version,
                                      !.snap = IssuedFor(t.userId)])
          ELSE SetReq(r, Finish(base, res, {}))
    /\ chain' = {}
    /\ UNCHANGED <<users, refreshTokens, passwordResets, auditLog, mails, now, nextJti,
                   issued, rotated, invalidated, consumed, resetKilled, unswept>>

\* mutant: the version is not incremented
MutIncTokenVersion(u) == users

\* UserModel.updateOne({ _id: userId }, { $inc: { token_version: 1 } })
IncTokenVersion(u) == [users EXCEPT ![u].token_version = @ + 1]

\* first and second call of invalidateAllSessions: the $inc
InvalidateInc(r, at, to) ==
    /\ req[r].op = "invalidate" /\ req[r].pc = at
    /\ users' = IncTokenVersion(req[r].user)
    /\ SetReq(r, [req[r] EXCEPT !.pc = to])
    /\ chain' = {}
    /\ UNCHANGED <<refreshTokens, passwordResets, auditLog, mails, now, nextJti, events, clients,
                   issued, rotated, invalidated, consumed, resetKilled, unswept>>

\* first call of invalidateAllSessions: the deleteMany; the second call is issued
InvalidatePurge1(r) ==
    /\ req[r].op = "invalidate" /\ req[r].pc = "purge1"
    /\ refreshTokens' = DeleteManyTokens(req[r].user)
    /\ unswept' = DeleteManyIn(unswept, req[r].user)
    /\ invalidated' = invalidated \cup req[r].snap
    /\ SetReq(r, [req[r] EXCEPT !.pc = "inc2", !.snap = IssuedFor(req[r].user)])
    /\ chain' = {}
    /\ UNCHANGED <<users, passwordResets, auditLog, mails, now, nextJti, events, clients,
                   issued, rotated, consumed, resetKilled>>

\* second call of invalidateAllSessions: the deleteMany, then the response
InvalidatePurge2(r) ==
    /\ req[r].op = "invalidate" /\ req[r].pc = "purge2"
    /\ refreshTokens' = DeleteManyTokens(req[r].user)
    /\ unswept' = DeleteManyIn(unswept, req[r].user)
    /\ invalidated' = invalidated \cup req[r].snap
    /\ SetReq(r, Finish(req[r], Returned, {}))
    /\ chain' = {}
    /\ UNCHANGED <<users, passwordResets, auditLog, mails, now, nextJti, events, clients,
                   issued, rotated, consumed, resetKilled>>

(* --------------------------- password reset --------------------------- *)

\* history: the email belongs to no user, or to a deactivated one
NoActiveUser(email) == ~\E u \in Users : EmailOf(u) = email /\ users[u].is_active

\* UserModel.findOne({ email, is_active: true }); the reset token is generated
RequestResetStart(r, email) ==
    /\ Arrive(r)
    /\ LET found == FindActiveUserByEmail(email)
           base == [Idle EXCEPT !.op = "requestReset", !.email = email,
                                !.hist = (IF NoActiveUser(email) THEN {"noactive"} ELSE {})
                                    \cup (IF \E u \in Users : EmailOf(u) = email /\ ~users[u].is_active
                                          THEN {"inactive"} ELSE {})]
       IN IF found = {}
          THEN /\ SetReq(r, Finish(base, Returned, {}))
               /\ UNCHANGED nextJti
          ELSE LET u == CHOOSE x \in found : TRUE
               IN /\ SetReq(r, [base EXCEPT
                        !.pc = "persist", !.user = u, !.jti = nextJti,
                        !.exp = now + PasswordResetExpiry,
                        !.access = GeneratePasswordResetToken(u, users[u].token_version, nextJti)])
                  /\ nextJti' = nextJti + 1
    /\ chain' = {}
    /\ UNCHANGED <<users, refreshTokens, passwordResets, auditLog, mails, now,
                   issued, rotated, invalidated, consumed, resetKilled, unswept>>

\* used_at of a record that was never marked (the field is absent)
NotUsed == -1

\* mutant: the record is not written
MutCreateResetRecord(userId, jti, exp) == passwordResets

\* PasswordResetModel.create({ user_id, token: jti, expires_at }); used defaults to false
CreateResetRecord(userId, jti, exp) ==
    passwordResets \cup {[user_id |-> userId, token |-> jti, used |-> FALSE,
                          used_at |-> NotUsed, expires_at |-> exp]}

\* the reset record is persisted
RequestResetPersist(r) ==
    /\ req[r].op = "requestReset" /\ req[r].pc = "persist"
    /\ passwordResets' = CreateResetRecord(req[r].user, req[r].jti, req[r].exp)
    /\ SetReq(r, [req[r] EXCEPT !.pc = "mail"])
    /\ chain' = {}
    /\ UNCHANGED <<users, refreshTokens, auditLog, mails, now, nextJti, events, clients,
                   issued, rotated, invalidated, consumed, resetKilled, unswept>>

\* sendMail: transporter.sendMail delivers, or fails and sendMail rethrows
RequestResetMail(r, delivered) ==
    /\ req[r].op = "requestReset" /\ req[r].pc = "mail"
    /\ mails' = mails \cup {[to |-> EmailOf(req[r].user), token |-> req[r].access,
                             delivered |-> delivered]}
    /\ IF delivered
       THEN SetReq(r, [req[r] EXCEPT !.pc = "audit"])
       ELSE SetReq(r, Finish(req[r], RawError("smtp"), {}))
    /\ chain' = {}
    /\ UNCHANGED <<users, refreshTokens, passwordResets, auditLog, now, nextJti, events, clients,
                   issued, rotated, invalidated, consumed, resetKilled, unswept>>

\* logActivity(userId, "request_password_reset")
RequestResetAudit(r) ==
    /\ req[r].op = "requestReset" /\ req[r].pc = "audit"
    /\ auditLog' = LogActivity(req[r].user, "request_password_reset", req[r].user)
    /\ SetReq(r, Finish(req[r], Returned, {}))
    /\ chain' = {}
    /\ UNCHANGED <<users, refreshTokens, passwordResets, mails, now, nextJti, events, clients,
                   issued, rotated, invalidated, consumed, resetKilled, unswept>>

\* mutant: the lookup does not ask for used: false
MutFindResetRecord(jti) ==
    {rec \in passwordResets : rec.token = jti /\ rec.expires_at > now}

\* PasswordResetModel.findOne({ token: jti, used: false, expires_at: { $gt: new Date() } })
FindResetRecord(jti) ==
    {rec \in passwordResets : rec.token = jti /\ rec.used = FALSE /\ rec.expires_at > now}

\* mutant: the mark is not written
MutMarkUsed(jti) == passwordResets

\* PasswordResetModel.updateOne({ _id: record._id }, { $set: { used: true, used_at } })
MarkUsed(jti) ==
    {IF rec.token = jti THEN [rec EXCEPT !.used = TRUE, !.used_at = now] ELSE rec :
        rec \in passwordResets}

\* mutant: the $inc is missing
MutSetPassword(u, hashed) == [users EXCEPT ![u].password_hash = hashed]

\* UserModel.updateOne({ _id }, { $set: { password_hash }, $inc: { token_version: 1 } })
SetPassword(u, hashed) ==
    [users EXCEPT ![u].password_hash = hashed, ![u].token_version = @ + 1]

\* history: the user's token_version was incremented after token t was made
StaleVersion(t) == t.userId \in Users /\ t.tokenVersion # users[t.userId].token_version

\* verifyPasswordResetToken, the jti check, PasswordResetModel.findOne
ResetStart(r, t, password) ==
    /\ Arrive(r)
    /\ LET base == [Idle EXCEPT !.op = "resetPassword", !.tok = t, !.password = password,
                                !.hist = TokenHistory(t) \cup
                                         (IF StaleVersion(t) THEN {"staleVersion"} ELSE {})]
           err == UnauthorizedError("Invalid or expired password reset token")
       IN IF ~VerifyPasswordResetToken(t) \/ t.jti = 0
          THEN SetReq(r, Finish(base, err, {}))
          ELSE IF FindResetRecord(t.jti) = {}
          THEN SetReq(r, Finish(base, err, {}))
          ELSE SetReq(r, [base EXCEPT !.pc = "mark", !.jti = t.jti,
                                      !.tv = users[t.userId].token_version,
                                      !.snap = IssuedFor(t.userId)])
    /\ chain' = {}
    /\ UNCHANGED <<users, refreshTokens, passwordResets, auditLog, mails, now, nextJti,
                   issued, rotated, invalidated, consumed, resetKilled, unswept>>

\* the record is marked used
ResetMark(r) ==
    /\ req[r].op = "resetPassword" /\ req[r].pc = "mark"
    /\ passwordResets' = MarkUsed(req[r].jti)
    /\ SetReq(r, [req[r] EXCEPT !.pc = "user"])
    /\ chain' = {}
    /\ UNCHANGED <<users, refreshTokens, auditLog, mails, now, nextJti, events, clients,
                   issued, rotated, invalidated, consumed, resetKilled, unswept>>

\* UserModel.findOne({ _id: payload.userId, is_active: true }), argon2.hash
ResetUser(r) ==
    /\ req[r].op = "resetPassword" /\ req[r].pc = "user"
    /\ IF FindActiveUserById(req[r].tok.userId) = {}
       THEN SetReq(r, Finish(req[r],
                UnauthorizedError("Invalid or expired password reset token"), {}))
       ELSE SetReq(r, [req[r] EXCEPT !.pc = "update", !.user = req[r].tok.userId])
    /\ chain' = {}
    /\ UNCHANGED <<users, refreshTokens, passwordResets, auditLog, mails, now, nextJti,
                   events, clients, issued, rotated, invalidated, consumed, resetKilled, unswept>>

\* the new hash is stored and token_version incremented
ResetUpdate(r) ==
    /\ req[r].op = "resetPassword" /\ req[r].pc = "update"
    /\ users' = SetPassword(req[r].user, Argon2Hash(req[r].password))
    /\ SetReq(r, [req[r] EXCEPT !.pc = "purge"])
    /\ chain' = {}
    /\ UNCHANGED <<refreshTokens, passwordResets, auditLog, mails, now, nextJti, events, clients,
                   issued, rotated, invalidated, consumed, resetKilled, unswept>>

\* RefreshTokenModel.deleteMany({ user_id })
ResetPurge(r) ==
    /\ req[r].op = "resetPassword" /\ req[r].pc = "purge"
    /\ refreshTokens' = DeleteManyTokens(req[r].user)
    /\ unswept' = DeleteManyIn(unswept, req[r].user)
    /\ SetReq(r, [req[r] EXCEPT !.pc = "audit"])
    /\ chain' = {}
    /\ UNCHANGED <<users, passwordResets, auditLog, mails, now, nextJti, events, clients,
                   issued, rotated, invalidated, consumed, resetKilled>>

\* logActivity(userId, "reset_password"), return
ResetAudit(r) ==
    /\ req[r].op = "resetPassword" /\ req[r].pc = "audit"
    /\ auditLog' = LogActivity(req[r].user, "reset_password", req[r].user)
    /\ SetReq(r, Finish(req[r], Returned, {}))
    /\ consumed' = consumed \cup {req[r].tok}
    /\ resetKilled' = resetKilled \cup req[r].snap
    /\ chain' = {}
    /\ UNCHANGED <<users, refreshTokens, passwordResets, mails, now, nextJti, events, clients,
                   issued, rotated, invalidated, unswept>>

(* ----------------------------- updateUser ----------------------------- *)

\* mutant: a manager may manage everybody
MutCanManageUser(actorRole, targetRole) == actorRole \in {"admin", "manager"}

\* canManageUser(actorRole, targetRole)
CanManageUser(actorRole, targetRole) ==
    IF actorRole = "admin" THEN TRUE
    ELSE IF actorRole = "manager" THEN targetRole = "viewer"
    ELSE FALSE

\* the checks of updateUser on the target document it has read
UpdateUserCheck(id, updates, actorId, actorRole, target) ==
    IF id = actorId /\ updates.role # "unset" /\ updates.role # target.role
    THEN ForbiddenError("Cannot change your own role")
    ELSE IF id = actorId /\ updates.is_active = "false"
    THEN ForbiddenError("Cannot deactivate your own account")
    ELSE IF updates.role # "unset" /\ updates.role # target.role /\ actorRole # "admin"
    THEN ForbiddenError("Only admins can change roles")
    ELSE IF updates.is_active # "unset" /\ ~CanManageUser(actorRole, target.role)
    THEN ForbiddenError("Insufficient permissions")
    ELSE Returned

\* Object.assign(targetUser, updates); targetUser.save(): the paths whose value changed are written
SaveUser(id, updates, target) ==
    [users EXCEPT
       ![id].role = IF updates.role # "unset" /\ updates.role # target.role
                    THEN updates.role ELSE @,
       ![id].is_active = IF updates.is_active # "unset" /\ updates.is_active # target.is_active
                         THEN updates.is_active = "true" ELSE @]

\* PATCH /api/users/:id: requireAuth, then the controller calls updateUser
UpdateUserStart(r, t, id, updates) ==
    /\ Arrive(r)
    /\ LET base == [Idle EXCEPT !.op = "updateUser", !.tok = t, !.target = id,
                                !.upd = updates, !.hist = TokenHistory(t)]
           res == RequireAuthResult(t)
       IN IF res = Returned
          THEN SetReq(r, [base EXCEPT !.pc = "find", !.user = t.userId,
                                      !.role = users[t.userId].role])
          ELSE SetReq(r, Finish(base, res, {}))
    /\ chain' = {}
    /\ UNCHANGED <<users, refreshTokens, passwordResets, auditLog, mails, now, nextJti,
                   issued, rotated, invalidated, consumed, resetKilled, unswept>>

\* UserModel.findById(id), the permission checks
UpdateUserFind(r) ==
    /\ req[r].op = "updateUser" /\ req[r].pc = "find"
    /\ LET target == [role |-> users[req[r].target].role,
                      is_active |-> Flag(users[req[r].target].is_active)]
           res == UpdateUserCheck(req[r].target, req[r].upd, req[r].user, req[r].role, target)
       IN IF res = Returned
          THEN SetReq(r, [req[r] EXCEPT !.pc = "save", !.tgt = target])
          ELSE SetReq(r, Finish(req[r], res, {}))
    /\ chain' = {}
    /\ UNCHANGED <<users, refreshTokens, passwordResets, auditLog, mails, now, nextJti,
                   events, clients, issued, rotated, invalidated, consumed, resetKilled, unswept>>

\* targetUser.save()
UpdateUserSave(r) ==
    /\ req[r].op = "updateUser" /\ req[r].pc = "save"
    /\ users' = SaveUser(req[r].target, req[r].upd, req[r].tgt)
    /\ SetReq(r, [req[r] EXCEPT !.pc = "audit"])
    /\ chain' = {}
    /\ UNCHANGED <<refreshTokens, passwordResets, auditLog, mails, now, nextJti,
                   events, clients, issued, rotated, invalidated, consumed, resetKilled, unswept>>

\* AuditLogModel.create({ actor_id, action: "update", target_id }), return
UpdateUserAudit(r) ==
    /\ req[r].op = "updateUser" /\ req[r].pc = "audit"
    /\ auditLog' = LogActivity(req[r].user, "update", req[r].target)
    /\ SetReq(r, Finish(req[r], Returned, {}))
    /\ chain' = {}
    /\ UNCHANGED <<users, refreshTokens, passwordResets, mails, now, nextJti,
                   events, clients, issued, rotated, invalidated, consumed, resetKilled, unswept>>

(* --------------------------- impersonation ---------------------------- *)

\* POST /api/impersonate/:id: requireAuth, requireAdmin, then impersonateUser
ImpersonateStart(r, t, id) ==
    /\ Arrive(r)
    /\ LET base == [Idle EXCEPT !.op = "impersonate", !.tok = t, !.target = id,
                                !.hist = TokenHistory(t)]
           res == RequireAuthResult(t)
           allowed == IF res = Returned THEN RequireRole(ResolveIdentity(t), RequireAdmin)
                      ELSE res
       IN IF allowed = Returned
          THEN SetReq(r, [base EXCEPT !.pc = "admin", !.user = t.userId])
          ELSE SetReq(r, Finish(base, allowed, {}))
    /\ chain' = {}
    /\ UNCHANGED <<users, refreshTokens, passwordResets, auditLog, mails, now, nextJti,
                   issued, rotated, invalidated, consumed, resetKilled, unswept>>

\* UserModel.findById(adminId), the role check of the service
ImpersonateAdmin(r) ==
    /\ req[r].op = "impersonate" /\ req[r].pc = "admin"
    /\ IF users[req[r].user].role # "admin"
       THEN SetReq(r, Finish(req[r], ForbiddenError("Only admins can impersonate users"), {}))
       ELSE SetReq(r, [req[r] EXCEPT !.pc = "target"])
    /\ chain' = {}
    /\ UNCHANGED <<users, refreshTokens, passwordResets, auditLog, mails, now, nextJti,
                   events, clients, issued, rotated, invalidated, consumed, resetKilled, unswept>>

\* UserModel.findById(userIdToImpersonate), generateAccessToken for the target
ImpersonateTarget(r) ==
    /\ req[r].op = "impersonate" /\ req[r].pc = "target"
    /\ LET id == req[r].target
       IN SetReq(r, [req[r] EXCEPT !.pc = "audit",
                        !.access = GenerateAccessToken(id, EmailOf(id), users[id].role,
                                                       users[id].token_version)])
    /\ chain' = {}
    /\ UNCHANGED <<users, refreshTokens, passwordResets, auditLog, mails, now, nextJti,
                   events, clients, issued, rotated, invalidated, consumed, resetKilled, unswept>>

\* AuditLogModel.create({ actor_id: adminId, action: "impersonate", target_id }), return
ImpersonateAudit(r) ==
    /\ req[r].op = "impersonate" /\ req[r].pc = "audit"
    /\ auditLog' = LogActivity(req[r].user, "impersonate", req[r].target)
    /\ SetReq(r, Finish(req[r], Returned, {req[r].access}))
    /\ issued' = issued \cup {req[r].access}
    /\ chain' = {}
    /\ UNCHANGED <<users, refreshTokens, passwordResets, mails, now, nextJti,
                   events, clients, rotated, invalidated, consumed, resetKilled, unswept>>

(* --------------------------- environment ------------------------------ *)

\* time passes; a request is served within one unit of time
Tick(d) ==
    /\ \A q \in Reqs : ~InFlight(q)
    /\ events < EventLimit
    /\ events' = events + 1
    /\ clients' = clients
    /\ now' = now + d
    /\ req' = [q \in Reqs |-> Disturb(req[q])]
    /\ chain' = {}
    /\ UNCHANGED <<users, refreshTokens, passwordResets, auditLog, mails, nextJti,
                   issued, rotated, invalidated, consumed, resetKilled, unswept>>

\* mutant: the sweep empties the collection
MutSweepTokens == {}

\* RefreshTokenModel.deleteMany({ expires_at: { $lt: new Date() } })
SweepTokens == {rec \in refreshTokens : ~(rec.expires_at < now)}

\* cleanupExpiredTokens, run by the hourly timer
CleanupExpiredTokens ==
    /\ events < EventLimit
    /\ events' = events + 1
    /\ clients' = clients
    /\ refreshTokens' = SweepTokens
    /\ unswept' = unswept
    /\ req' = [q \in Reqs |-> Disturb(req[q])]
    /\ chain' = {}
    /\ UNCHANGED <<users, passwordResets, auditLog, mails, now, nextJti,
                   issued, rotated, invalidated, consumed, resetKilled>>

(* --------------------------- specification ---------------------------- *)

InitStore ==
    /\ users = [u \in Users |->
                  [is_active |-> TRUE, token_version |-> 0,
                   password_hash |-> Argon2Hash("p1"),
                   role |-> IF u = "u1" THEN "admin" ELSE "viewer"]]
    /\ refreshTokens = {}
    /\ passwordResets = {}
    /\ auditLog = <<>>
    /\ mails = {}
    /\ now = 0
    /\ nextJti = 1
    /\ events = 0
    /\ req = [r \in Reqs |-> Idle]
    /\ issued = {}
    /\ rotated = {}
    /\ invalidated = {}
    /\ consumed = {}
    /\ resetKilled = {}
    /\ chain = {}
    /\ unswept = {}

\* requests arrive one after the other
Init == InitStore /\ clients = 1

\* two clients: the handlers of two requests interleave at their awaits
ConcInit == InitStore /\ clients = 2

Next ==
    \/ \E r \in Reqs, e \in Emails, p \in Passwords : LoginStart(r, e, p)
    \/ \E r \in Reqs : LoginCreate(r)
    \/ \E r \in Reqs : LoginAudit(r)
    \/ \E r \in Reqs : \E t \in Presentable : RefreshStart(r, t)
    \/ \E r \in Reqs : RefreshUser(r)
    \/ \E r \in Reqs : RefreshReject(r)
    \/ \E r \in Reqs : RefreshRotate(r)
    \/ \E r \in Reqs : RefreshCreate(r)
    \/ \E r \in Reqs : \E t \in Presentable : LogoutStart(r, t)
    \/ \E r \in Reqs : LogoutAudit(r)
    \/ \E r \in Reqs : \E t \in Presentable : RequireAuth(r, t)
    \/ \E r \in Reqs, optional \in BOOLEAN, allowedRoles \in {RequireAdmin, RequireManagerOrAdmin} :
          \E t \in Presentable \cup {NoToken} : RoleRoute(r, t, allowedRoles, optional)
    \/ \E r \in Reqs : \E t \in Presentable : InvalidateStart(r, t)
    \/ \E r \in Reqs : InvalidateInc(r, "inc1", "purge1")
    \/ \E r \in Reqs : InvalidatePurge1(r)
    \/ \E r \in Reqs : InvalidateInc(r, "inc2", "purge2")
    \/ \E r \in Reqs : InvalidatePurge2(r)
    \/ \E r \in Reqs, e \in Emails : RequestResetStart(r, e)
    \/ \E r \in Reqs : RequestResetPersist(r)
    \/ \E r \in Reqs, delivered \in BOOLEAN : RequestResetMail(r, delivered)
    \/ \E r \in Reqs : RequestResetAudit(r)
    \/ \E r \in Reqs, p \in Passwords : \E t \in Presentable : ResetStart(r, t, p)
    \/ \E r \in Reqs : ResetMark(r)
    \/ \E r \in Reqs : ResetUser(r)
    \/ \E r \in Reqs : ResetUpdate(r)
    \/ \E r \in Reqs : ResetPurge(r)
    \/ \E r \in Reqs : ResetAudit(r)
    \/ \E r \in Reqs, id \in Users, updates \in Updates :
          \E t \in Presentable : UpdateUserStart(r, t, id, updates)
    \/ \E r \in Reqs : UpdateUserFind(r)
    \/ \E r \in Reqs : UpdateUserSave(r)
    \/ \E r \in Reqs : UpdateUserAudit(r)
    \/ \E d \in {AccessTokenExpiry, PasswordResetExpiry, RefreshTokenExpiry} : Tick(d)
    \/ CleanupExpiredTokens

Spec == Init /\ [][Next]_vars

ConcSpec == ConcInit /\ [][Next]_vars

(* ---------------------------- store faults --------------------------- *)

\* RefreshTokenModel.create rejects in login: nothing catches it, the handler ends
LoginCreateFails(r) ==
    /\ req[r].op = "login" /\ req[r].pc = "create"
    /\ SetReq(r, Finish([req[r] EXCEPT !.hist = @ \cup {"createFailed"}],
                         RawError("store"), {}))
    /\ chain' = {}
    /\ UNCHANGED <<users, refreshTokens, passwordResets, auditLog, mails, now, nextJti,
                   events, clients, issued, rotated, invalidated, consumed, resetKilled, unswept>>

\* RefreshTokenModel.create rejects in refreshToken: the catch answers
\* UnauthorizedError('Invalid refresh token')
RefreshCreateFails(r) ==
    /\ req[r].op = "refresh" /\ req[r].pc = "create"
    /\ SetReq(r, Finish([req[r] EXCEPT !.hist = @ \cup {"createFailed"}],
                         UnauthorizedError("Invalid refresh token"), {}))
    /\ chain' = {}
    /\ UNCHANGED <<users, refreshTokens, passwordResets, auditLog, mails, now, nextJti,
                   events, clients, issued, rotated, invalidated, consumed, resetKilled, unswept>>

\* argon2.verify rejects (a stored hash it cannot parse, a failed allocation):
\* login has no try around it, the library's error leaves the handler
LoginVerifyFails(r, email, password) ==
    /\ Arrive(r)
    /\ FindActiveUserByEmail(email) # {}
    /\ LET u == CHOOSE x \in FindActiveUserByEmail(email) : TRUE
           base == [Idle EXCEPT !.op = "login", !.email = email, !.password = password,
                                !.user = u, !.hist = {"verifyThrew"}]
       IN SetReq(r, Finish(base, RawError("argon2"), {}))
    /\ chain' = {}
    /\ UNCHANGED <<users, refreshTokens, passwordResets, auditLog, mails, now, nextJti,
                   issued, rotated, invalidated, consumed, resetKilled, unswept>>

\* two clients, a store whose create may reject and a hash library that may raise
FaultNext ==
    \/ Next
    \/ \E r \in Reqs, e \in Emails, p \in Passwords : LoginVerifyFails(r, e, p)
    \/ \E r \in Reqs : LoginCreateFails(r)
    \/ \E r \in Reqs : RefreshCreateFails(r)

FaultSpec == ConcInit /\ [][FaultNext]_vars

(* ------------------------------ the sweep ----------------------------- *)

\* a server on which user u logged in seven days ago (or a moment longer) and
\* cleanupExpiredTokens has not run since: the record of that session has
\* reached its expires_at and is still in the collection
SweepInit ==
    \E u \in Users, late \in {0, 1} :
        LET access == [GenerateAccessToken(u, EmailOf(u),
                                           IF u = "u1" THEN "admin" ELSE "viewer", 0)
                          EXCEPT !.exp = AccessTokenExpiry]
            refresh == [GenerateRefreshToken(u, 0, 1) EXCEPT !.exp = RefreshTokenExpiry]
            rec == [user_id |-> u, token |-> 1, expires_at |-> RefreshTokenExpiry]
        IN /\ users = [x \in Users |->
                          [is_active |-> TRUE, token_version |-> 0,
                           password_hash |-> Argon2Hash("p1"),
                           role |-> IF x = "u1" THEN "admin" ELSE "viewer"]]
           /\ refreshTokens = {rec} /\ unswept = {rec}
           /\ passwordResets = {} /\ mails = {}
           /\ auditLog = <<[actor_id |-> u, action |-> "login", target_id |-> u]>>
           /\ now = RefreshTokenExpiry + late
           /\ nextJti = 2 /\ events = 0 /\ clients = 1
           /\ req = [r \in Reqs |-> Idle]
           /\ issued = {access, refresh}
           /\ rotated = {} /\ invalidated = {} /\ consumed = {}
           /\ resetKilled = {} /\ chain = {}

\* the calls that read or write the RefreshToken collection or depend on the
\* user document, the clock and the sweep
SweepNext ==
    \/ \E r \in Reqs, e \in Emails, p \in Passwords : LoginStart(r, e, p)
    \/ \E r \in Reqs : LoginCreate(r)
    \/ \E r \in Reqs : LoginAudit(r)
    \/ \E r \in Reqs : \E t \in Presentable : RefreshStart(r, t)
    \/ \E r \in Reqs : RefreshUser(r)
    \/ \E r \in Reqs : RefreshReject(r)
    \/ \E r \in Reqs : RefreshRotate(r)
    \/ \E r \in Reqs : RefreshCreate(r)
    \/ \E r \in Reqs : \E t \in Presentable : LogoutStart(r, t)
    \/ \E r \in Reqs : LogoutAudit(r)
    \/ \E r \in Reqs : \E t \in Presentable : RequireAuth(r, t)
    \/ \E r \in Reqs, id \in Users, updates \in Updates :
          \E t \in Presentable : UpdateUserStart(r, t, id, updates)
    \/ \E r \in Reqs : UpdateUserFind(r)
    \/ \E r \in Reqs : UpdateUserSave(r)
    \/ \E r \in Reqs : UpdateUserAudit(r)
    \/ \E d \in {AccessTokenExpiry, RefreshTokenExpiry} : Tick(d)
    \/ CleanupExpiredTokens

SweepSpec == SweepInit /\ [][SweepNext]_vars

(* --------------------------- user directory --------------------------- *)

\* a directory whose two users hold any roles
UserInit ==
    /\ \E ro \in [Users -> Roles] :
          users = [u \in Users |->
                     [is_active |-> TRUE, token_version |-> 0,
                      password_hash |-> Argon2Hash("p1"), role |-> ro[u]]]
    /\ refreshTokens = {} /\ passwordResets = {} /\ auditLog = <<>> /\ mails = {}
    /\ now = 0 /\ nextJti = 1 /\ events = 0 /\ clients = 1
    /\ req = [r \in Reqs |-> Idle]
    /\ issued = {} /\ rotated = {} /\ invalidated = {} /\ consumed = {}
    /\ resetKilled = {} /\ chain = {} /\ unswept = {}

\* logins, user updates and impersonations, one request after the other
UserNext ==
    \/ \E r \in Reqs, e \in Emails, p \in Passwords : LoginStart(r, e, p)
    \/ \E r \in Reqs : LoginCreate(r)
    \/ \E r \in Reqs : LoginAudit(r)
    \/ \E r \in Reqs, id \in Users, updates \in AllUpdates :
          \E t \in Presentable : UpdateUserStart(r, t, id, updates)
    \/ \E r \in Reqs : UpdateUserFind(r)
    \/ \E r \in Reqs : UpdateUserSave(r)
    \/ \E r \in Reqs : UpdateUserAudit(r)
    \/ \E r \in Reqs, id \in Users : \E t \in Presentable : ImpersonateStart(r, t, id)
    \/ \E r \in Reqs : ImpersonateAdmin(r)
    \/ \E r \in Reqs : ImpersonateTarget(r)
    \/ \E r \in Reqs : ImpersonateAudit(r)

UserSpec == UserInit /\ [][UserNext]_vars

(* ------------------------- concurrent updates ------------------------- *)

\* history: some active user has the role admin
ActiveAdmin == \E u \in Users : users[u].is_active /\ users[u].role = "admin"

\* the token id of the session of user u in AdminInit
SessionJti(u) == IF u = "u1" THEN 1 ELSE 2

\* a directory with at least one admin in which every user has just logged in,
\* and two clients
AdminInit ==
    \E ro \in [Users -> Roles] :
        /\ \E u \in Users : ro[u] = "admin"
        /\ users = [u \in Users |->
                      [is_active |-> TRUE, token_version |-> 0,
                       password_hash |-> Argon2Hash("p1"), role |-> ro[u]]]
        /\ refreshTokens = {[user_id |-> u, token |-> SessionJti(u),
                              expires_at |-> RefreshTokenExpiry] : u \in Users}
        /\ unswept = refreshTokens
        /\ passwordResets = {} /\ mails = {}
        /\ auditLog = <<[actor_id |-> "u1", action |-> "login", target_id |-> "u1"],
                        [actor_id |-> "u2", action |-> "login", target_id |-> "u2"]>>
        /\ now = 0 /\ nextJti = 3 /\ events = 0 /\ clients = 2
        /\ req = [r \in Reqs |-> Idle]
        /\ issued = {Sign("access", u, EmailOf(u), ro[u], 0, 0, AccessTokenExpiry) : u \in Users}
                     \cup {Sign("refresh", u, <<>>, "none", 0, SessionJti(u), RefreshTokenExpiry) :
                              u \in Users}
        /\ rotated = {} /\ invalidated = {} /\ consumed = {}
        /\ resetKilled = {} /\ chain = {}

\* the access tokens handed out
AccessTokens == {t \in issued : t.secret = "access"}

\* PATCH /api/users/:id and PUT /api/users/:id/status, from two clients that
\* send their own access tokens
AdminNext ==
    \/ \E r \in Reqs, id \in Users, updates \in Updates :
          \E t \in AccessTokens : UpdateUserStart(r, t, id, updates)
    \/ \E r \in Reqs : UpdateUserFind(r)
    \/ \E r \in Reqs : UpdateUserSave(r)
    \/ \E r \in Reqs : UpdateUserAudit(r)

AdminSpec == AdminInit /\ [][AdminNext]_vars

(* ------------------------- token round trip --------------------------- *)

\* generateAccessToken({ userId, email, role, tokenVersion })
JwtGenerate(r) ==
    /\ req[r].op = "jwt" /\ req[r].pc = "sign"
    /\ req' = [req EXCEPT ![r].pc = "verify",
                          ![r].exp = now + AccessTokenExpiry,
                          ![r].access = GenerateAccessToken(req[r].user, req[r].email,
                                                            req[r].role, req[r].tv)]
    /\ UNCHANGED <<users, refreshTokens, passwordResets, auditLog, mails, now, nextJti,
                   events, clients, issued, rotated, invalidated, consumed, resetKilled, chain, unswept>>

\* verifyAccessToken(token): the payload, or Error('Invalid access token')
JwtVerify(r) ==
    /\ req[r].op = "jwt" /\ req[r].pc = "verify"
    /\ LET ok == VerifyAccessToken(req[r].access)
       IN req' = [req EXCEPT ![r].pc = "done",
                             ![r].pre = now < req[r].exp,
                             ![r].result = IF ok THEN Returned
                                           ELSE RawError("Invalid access token"),
                             ![r].out = IF ok THEN {DecodeAccessToken(req[r].access)} ELSE {}]
    /\ UNCHANGED <<users, refreshTokens, passwordResets, auditLog, mails, now, nextJti,
                   events, clients, issued, rotated, invalidated, consumed, resetKilled, chain, unswept>>

\* time passes before the token is made or before it is verified
JwtTick ==
    /\ now < MaxClock
    /\ \E r \in Reqs : req[r].op = "jwt" /\ req[r].pc # "done"
    /\ now' = now + 1
    /\ UNCHANGED <<users, refreshTokens, passwordResets, auditLog, mails, nextJti, req,
                   events, clients, issued, rotated, invalidated, consumed, resetKilled, chain, unswept>>

\* every { userId, email, role, tokenVersion } of the bounded sets
JwtInit ==
    /\ users = [u \in Users |->
                  [is_active |-> TRUE, token_version |-> 0,
                   password_hash |-> Argon2Hash("p1"),
                   role |-> IF u = "u1" THEN "admin" ELSE "viewer"]]
    /\ refreshTokens = {} /\ passwordResets = {} /\ auditLog = <<>> /\ mails = {}
    /\ now = 0 /\ nextJti = 1 /\ events = 0 /\ clients = 1
    /\ issued = {} /\ rotated = {} /\ invalidated = {} /\ consumed = {}
    /\ resetKilled = {} /\ chain = {} /\ unswept = {}
    /\ \E u \in Users, e \in Emails, ro \in Roles, v \in 0..MaxVersion :
          req = [r \in Reqs |->
                   IF r = 1 THEN [Idle EXCEPT !.op = "jwt", !.pc = "sign", !.user = u,
                                              !.email = e, !.role = ro, !.tv = v]
                   ELSE Idle]

JwtNext == (\E r \in Reqs : JwtGenerate(r)) \/ (\E r \in Reqs : JwtVerify(r)) \/ JwtTick

JwtSpec == JwtInit /\ [][JwtNext]_vars

(* ------------------------------ claims -------------------------------- *)

Done(r) == req[r].pc = "done"
InvalidRefreshToken == UnauthorizedError("Invalid refresh token")
InvalidResetToken == UnauthorizedError("Invalid or expired password reset token")
InvalidCredentials == UnauthorizedError("Invalid credentials")

\* C1: a refresh call that starts after a refresh call with the same token has
\* succeeded fails with InvalidRefreshToken (401), whatever ran in between.
C1_SingleUseRotation ==
    \A r \in Reqs :
        (req[r].op = "refresh" /\ "rotated" \in req[r].hist)
            => (Done(r) /\ req[r].result = InvalidRefreshToken)

\* a replay of a rotated refresh token whose signature and expiry are still good
C1_Witness ==
    \E r \in Reqs :
        /\ req[r].op = "refresh" /\ Done(r) /\ "rotated" \in req[r].hist
        /\ req[r].tok.secret = "refresh" /\ now < req[r].tok.exp

\* C2: of the refresh calls that carry the same refresh token and overlap, at most
\* one succeeds: no refresh call succeeds for a token that another call has
\* rotated already.
C2_AtMostOneConcurrentRefresh ==
    \A r \in Reqs :
        (req[r].op = "refresh" /\ Done(r) /\ req[r].result = Returned)
            => "second" \notin req[r].hist

\* C3: a token of user u that was handed out before a completed
\* invalidateAllSessions(u) is rejected by requireAuth and by refresh.
C3_InvalidatedTokensRejected ==
    \A r \in Reqs :
        (req[r].op \in {"auth", "refresh", "invalidate", "updateUser"}
           /\ "invalidated" \in req[r].hist)
            => /\ Done(r)
               /\ req[r].result # Returned
               /\ req[r].op = "refresh" => req[r].result = InvalidRefreshToken

\* an access token that is still inside its lifetime is presented after the invalidation
C3_Witness ==
    \E r \in Reqs :
        /\ req[r].op = "auth" /\ Done(r) /\ "invalidated" \in req[r].hist
        /\ req[r].tok.secret = "access" /\ now < req[r].tok.exp
        /\ users[req[r].tok.userId].is_active

\* C4: resetPassword with a reset token that a resetPassword call has consumed
\* fails at once with InvalidResetToken and writes nothing to the user.
C4_ResetTokenSingleUse ==
    [][\A r \in Reqs, p \in Passwords : \A t \in consumed :
          ResetStart(r, t, p) =>
              /\ req'[r].pc = "done"
              /\ req'[r].result = InvalidResetToken
              /\ users' = users]_vars

\* a consumed reset token is presented again inside its one-hour window
C4_Witness ==
    \E r \in Reqs :
        /\ req[r].op = "resetPassword" /\ Done(r) /\ "consumed" \in req[r].hist
        /\ now < req[r].tok.exp
        /\ req[r].result = InvalidResetToken

\* C5: a refresh call that no other task interleaves with succeeds if and only if
\* the token was valid when the call arrived: signed with the refresh secret, not
\* expired, an unexpired record with its jti and user id in the store, the user
\* active and the user's token_version equal to the token's.
C5_RefreshIffValid ==
    \A r \in Reqs :
        (req[r].op = "refresh" /\ Done(r) /\ req[r].solo)
            => ((req[r].result = Returned) <=> req[r].pre)

C5_Witness ==
    \E r \in Reqs :
        /\ req[r].op = "refresh" /\ Done(r) /\ req[r].solo
        /\ req[r].result = Returned /\ req[r].pre

\* C6: a successful refresh returns a refresh token that differs from the one
\* submitted, with a new jti whose record is in the store; presented next, with
\* nothing in between, that refresh token is accepted by refresh and the access
\* token returned with it is accepted by requireAuth.
C6_RefreshChains ==
    \A r \in Reqs :
        /\ (req[r].op = "refresh" /\ Done(r) /\ req[r].result = Returned) =>
              \E n \in req[r].out :
                  /\ n.secret = "refresh"
                  /\ n # req[r].tok /\ n.jti # req[r].tok.jti
                  /\ \E rec \in refreshTokens :
                        rec.token = n.jti /\ rec.user_id = n.userId
        /\ (Done(r) /\ req[r].solo /\ "chained" \in req[r].hist
              /\ \/ req[r].op = "refresh" /\ req[r].tok.secret = "refresh"
                 \/ req[r].op = "auth" /\ req[r].tok.secret = "access")
              => req[r].result = Returned

\* login, refresh of the login's token, refresh of the token that refresh returned
C6_Witness ==
    \E r \in Reqs :
        /\ req[r].op = "refresh" /\ Done(r) /\ "chained" \in req[r].hist
        /\ req[r].result = Returned
        /\ Len(auditLog) > 0 /\ auditLog[1].action = "login"

\* C7: when a resetPassword call for user u that no other task interleaves with
\* returns, u's hash is the hash of the new password, u's token_version is one
\* more than when the call arrived and u has no refresh-token record; a token
\* handed out for u before a successful reset is rejected by requireAuth and by
\* refresh.
C7_ResetRevokesSessions ==
    \A r \in Reqs :
        /\ (req[r].op = "resetPassword" /\ Done(r) /\ req[r].result = Returned /\ req[r].solo) =>
              /\ users[req[r].user].password_hash = Argon2Hash(req[r].password)
              /\ users[req[r].user].token_version = req[r].tv + 1
              /\ \A rec \in refreshTokens : rec.user_id # req[r].user
        /\ (req[r].op \in {"auth", "refresh", "invalidate", "updateUser"}
              /\ "resetKilled" \in req[r].hist)
              => (Done(r) /\ req[r].result # Returned)

\* a refresh token that is still inside its lifetime is presented after the reset
C7_Witness ==
    \E r \in Reqs :
        /\ req[r].op = "refresh" /\ Done(r) /\ "resetKilled" \in req[r].hist
        /\ req[r].tok.secret = "refresh" /\ now < req[r].tok.exp
        /\ users[req[r].tok.userId].password_hash = Argon2Hash("p2")

\* C8: a login for an email of no user, for a deactivated user or with a wrong
\* password is answered with one and the same error: UnauthorizedError, 401,
\* "Invalid credentials".
C8_UniformLoginError ==
    \A r \in Reqs :
        (req[r].op = "login" /\ req[r].hist \cap {"nouser", "inactive", "badpw"} # {})
            => (Done(r) /\ req[r].result = InvalidCredentials)

\* a deactivated user logs in with the right password
C8_Witness ==
    \E r \in Reqs :
        /\ req[r].op = "login" /\ Done(r) /\ "inactive" \in req[r].hist
        /\ req[r].password = "p1"

\* C9: requestPasswordReset for an email of no active user returns normally and
\* writes no reset record, no mail, no audit entry and nothing else.
C9_UnknownEmailNoTrace ==
    [][\A r \in Reqs, e \in Emails :
          (RequestResetStart(r, e) /\ NoActiveUser(e)) =>
              /\ req'[r].pc = "done"
              /\ req'[r].result = Returned
              /\ UNCHANGED <<users, refreshTokens, passwordResets, auditLog, mails>>]_vars

\* the email of a deactivated user
C9_Witness ==
    \E r \in Reqs :
        /\ req[r].op = "requestReset" /\ Done(r) /\ "noactive" \in req[r].hist
        /\ "inactive" \in req[r].hist
        /\ req[r].result = Returned

\* C10: requestPasswordReset answers every email alike: as it returns normally
\* for an email of no active user, it returns normally for every email, whether
\* the mail is delivered or not.
C10_ResetRequestUniform ==
    \A r \in Reqs :
        (req[r].op = "requestReset" /\ Done(r)) => req[r].result = Returned

\* C11: logout returns normally for every token (valid, expired, forged, rotated,
\* logged out before), and a logout that follows a logout with the same token
\* leaves the refresh-token store as it found it.
C11_LogoutIdempotent ==
    [][\A r \in Reqs :
          /\ (req'[r].op = "logout" /\ req'[r].pc = "done") => req'[r].result = Returned
          /\ \A t \in Presentable :
                (LogoutStart(r, t) /\ req[r].op = "logout" /\ req[r].pc = "done"
                    /\ req[r].tok = t)
                   => refreshTokens' = refreshTokens]_vars

\* one login, then two completed logouts with the refresh token of that login
C11_Witness ==
    /\ Len(auditLog) = 3
    /\ auditLog[1].action = "login"
    /\ auditLog[2].action = "logout" /\ auditLog[3].action = "logout"
    /\ \E r \in Reqs : req[r].op = "logout" /\ Done(r) /\ req[r].result = Returned

\* C12: requireAuth accepts a request if and only if the access token verifies,
\* the user it names exists and is active and the token's tokenVersion equals the
\* user's token_version; every other request is answered with Unauthorized (401)
\* and carries no identity.
C12_RequireAuthContract ==
    \A r \in Reqs :
        (req[r].op = "auth" /\ Done(r)) =>
            LET t == req[r].tok
                ok == /\ VerifyAccessToken(t)
                      /\ t.userId \in Users
                      /\ users[t.userId].is_active
                      /\ users[t.userId].token_version = t.tokenVersion
            IN /\ (req[r].result = Returned) <=> ok
               /\ ~ok => /\ req[r].result.name = "UnauthorizedError"
                         /\ ErrorHandler(req[r].result) = 401
                         /\ req[r].user = NoUser

\* C13: for a request whose identity was resolved, requireRole accepts if and only
\* if the role of the user's stored record is among the allowed roles and answers
\* Forbidden (403) otherwise, whatever role the token carries; with no identity
\* resolved it answers Unauthorized (401).
C13_RequireRoleContract ==
    \A r \in Reqs :
        (req[r].op = "role" /\ Done(r)) =>
            LET allowed == IF "adminOnly" \in req[r].hist
                           THEN RequireAdmin ELSE RequireManagerOrAdmin
            IN /\ req[r].pre =>
                    /\ (req[r].result = Returned) <=> (users[req[r].user].role \in allowed)
                    /\ req[r].result # Returned =>
                          /\ req[r].result = ForbiddenError("Insufficient permissions")
                          /\ ErrorHandler(req[r].result) = 403
               /\ (~req[r].pre /\ "optional" \in req[r].hist) =>
                    /\ req[r].result = UnauthorizedError("Authentication required")
                    /\ ErrorHandler(req[r].result) = 401

\* a token issued while its user was a viewer passes an admin-only route after
\* the user was made admin
C13_Witness ==
    \E r \in Reqs :
        /\ req[r].op = "role" /\ Done(r) /\ req[r].pre
        /\ req[r].result = Returned
        /\ "adminOnly" \in req[r].hist
        /\ req[r].tok.role = "viewer"

\* C14: for every { userId, email, role, tokenVersion }, the token made by
\* generateAccessToken is accepted by verifyAccessToken while it is less than 15
\* minutes old, and the payload returned carries the same four values.
C14_AccessTokenRoundTrip ==
    \A r \in Reqs :
        (req[r].op = "jwt" /\ Done(r) /\ req[r].pre) =>
            /\ req[r].result = Returned
            /\ req[r].out = {[userId |-> req[r].user, email |-> req[r].email,
                              role |-> req[r].role, tokenVersion |-> req[r].tv]}

\* a token for an email that is not the user's own, made and verified late
C14_Witness ==
    \E r \in Reqs :
        /\ req[r].op = "jwt" /\ Done(r) /\ req[r].pre
        /\ req[r].email # EmailOf(req[r].user)
        /\ req[r].tv = MaxVersion
        /\ now > 0

\* C15: one invalidate-sessions request for user u that no other task interleaves
\* with leaves u's token_version exactly one above what it was when the request
\* arrived, and leaves u without refresh-token records.
C15_ExactlyOneBump ==
    \A r \in Reqs :
        (req[r].op = "invalidate" /\ Done(r) /\ req[r].result = Returned /\ req[r].solo) =>
            /\ users[req[r].user].token_version = req[r].tv + 1
            /\ \A rec \in refreshTokens : rec.user_id # req[r].user

\* history: the token_version under which the session of a stored record was made
VersionOfRecord(rec) ==
    LET made == {t \in issued \cup {req[q].refresh : q \in Reqs} :
                    t.secret = "refresh" /\ t.jti = rec.token}
    IN (CHOOSE t \in made : TRUE).tokenVersion

\* C16: invalidateAllSessions(u) is atomic: no step of a login, refresh or
\* requireAuth is taken between its token_version bump and its purge, and the
\* purge deletes only records of sessions made under a token_version older than
\* the bumped one.
C16_InvalidateAtomic ==
    [][\A r \in Reqs :
          /\ (req[r].op = "invalidate" /\ req[r].pc \in {"purge1", "purge2"}) =>
                \A q \in Reqs \ {r} :
                    req'[q].op \in {"login", "refresh", "auth"} =>
                        (req'[q].op = req[q].op /\ req'[q].pc = req[q].pc)
          /\ (InvalidatePurge1(r) \/ InvalidatePurge2(r)) =>
                \A rec \in refreshTokens \ refreshTokens' :
                    VersionOfRecord(rec) < users[req[r].user].token_version]_vars

\* C17: a step of updateUser changes the target's is_active only for an admin
\* actor or a manager actor with a viewer target, changes the target's role only
\* for an admin actor, never deactivates the actor and never changes the actor's
\* role; an update that is rejected leaves the users and the audit log as they were.
C17_UpdateUserPermissions ==
    [][\A r \in Reqs :
          (req[r].op = "updateUser" /\ req[r].pc # "done") =>
              LET id == req[r].target
                  actor == req[r].user
                  actorRole == req[r].role
              IN /\ users'[id].is_active # users[id].is_active =>
                       /\ \/ actorRole = "admin"
                          \/ actorRole = "manager" /\ users[id].role = "viewer"
                       /\ id # actor
                 /\ users'[id].role # users[id].role =>
                       (actorRole = "admin" /\ id # actor)
                 /\ \A u \in Users \ {id} : users'[u] = users[u]
                 /\ (req'[r].pc = "done" /\ req'[r].result # Returned) =>
                       (users' = users /\ auditLog' = auditLog)]_vars

\* a manager has deactivated a viewer
C17_Witness ==
    \E r \in Reqs :
        /\ req[r].op = "updateUser" /\ Done(r) /\ req[r].result = Returned
        /\ users[req[r].user].role = "manager"
        /\ \E u \in Users : users[u].role = "viewer" /\ ~users[u].is_active

\* the audit action of an operation
AuditAction(op) ==
    CASE op = "login" -> "login"
      [] op = "logout" -> "logout"
      [] op = "updateUser" -> "update"
      [] op = "requestReset" -> "request_password_reset"
      [] op = "resetPassword" -> "reset_password"
      [] op = "impersonate" -> "impersonate"
      [] OTHER -> "none"

\* C18: the audit log is append-only and event-complete: the step that completes
\* a successful login, user update, password reset or impersonation, a logout
\* with a verifiable token, or a password-reset request for an existing active
\* user appends exactly one entry with the matching action; every other step
\* (a failed login or reset among them) leaves the log as it is.
C18_AuditLogComplete ==
    [][LET completes(r) == req'[r].pc = "done" /\ req'[r].op # "none"
           audited(r) ==
               \/ /\ req'[r].op \in {"login", "updateUser", "resetPassword", "impersonate"}
                  /\ req'[r].result = Returned
               \/ req'[r].op = "logout" /\ VerifyRefreshToken(req'[r].tok)
               \/ req'[r].op = "requestReset" /\ "noactive" \notin req'[r].hist
       IN IF \E r \in Reqs : completes(r) /\ audited(r)
          THEN \E r \in Reqs :
                  /\ completes(r) /\ audited(r)
                  /\ Len(auditLog') = Len(auditLog) + 1
                  /\ SubSeq(auditLog', 1, Len(auditLog)) = auditLog
                  /\ auditLog'[Len(auditLog')].action = AuditAction(req'[r].op)
          ELSE auditLog' = auditLog]_vars

\* C19: a refresh with a token that carries the server's signature and whose store
\* record has expires_at in the past fails with InvalidRefreshToken, and the stale
\* record is gone from the store when the call has returned.
C19_StaleRecordDeleted ==
    \A r \in Reqs :
        (req[r].op = "refresh" /\ Done(r) /\ "stale" \in req[r].hist
           /\ req[r].tok.secret = "refresh") =>
            /\ req[r].result = InvalidRefreshToken
            /\ \A rec \in refreshTokens : rec.token # req[r].tok.jti

RefreshOf(out) == {t \in out : t.secret = "refresh"}

ResetRecordLive(t, st) ==
    /\ VerifyPasswordResetToken(t) /\ t.jti # 0
    /\ \E rec \in st : /\ rec.token = t.jti /\ rec.user_id = t.userId
                        /\ rec.used = FALSE /\ rec.expires_at > now

\* C23: requestPasswordReset persists the reset record before it sends the
\* mail: whenever sendMail is called the record of the token in the mail is in
\* the store, and after a delivery that failed the record is still there,
\* unexpired and unused, so that resetPassword's lookup accepts the token.
C23_PersistBeforeMail ==
    [][\A r \in Reqs : \A delivered \in BOOLEAN :
          RequestResetMail(r, delivered)
              => /\ ResetRecordLive(req[r].access, passwordResets)
                 /\ ResetRecordLive(req[r].access, passwordResets')
                 /\ FindResetRecord(req[r].access.jti) # {}
                 /\ ~delivered => /\ req'[r].pc = "done"
                                  /\ req'[r].result # Returned
      ]_vars

\* a request whose mail was not delivered: the record of its token is live
C23_Witness ==
    \E r \in Reqs :
        /\ Done(r) /\ req[r].op = "requestReset" /\ req[r].result = RawError("smtp")
        /\ \E m \in mails :
              /\ ~m.delivered /\ m.to = EmailOf(req[r].user)
              /\ ResetRecordLive(m.token, passwordResets)

\* the lookup of refreshToken on a store st
FindStoredIn(st, jti, userId) ==
    {rec \in st : rec.token = jti /\ rec.user_id = userId /\ rec.expires_at > now}

\* C24: the sweep is no correctness mechanism: cleanupExpiredTokens deletes only
\* records whose expires_at has passed, never one that refresh would accept,
\* and the calls end the same whether sweeps run, run late or never run: the
\* store of the run with sweeps and the store of the same run without any
\* differ only in records that have expired, and the lookup of every refresh
\* finds the same record in both.
C24_SweepIsOptimization ==
    [][/\ CleanupExpiredTokens =>
             \A rec \in refreshTokens \ refreshTokens' :
                 /\ rec.expires_at < now
                 /\ rec \notin FindStoredToken(rec.token, rec.user_id)
       /\ refreshTokens' \subseteq unswept'
       /\ \A rec \in unswept' \ refreshTokens' : rec.expires_at < now'
       /\ \A r \in Reqs : \A t \in Presentable :
             RefreshStart(r, t) =>
                 FindStoredToken(t.jti, t.userId) = FindStoredIn(unswept, t.jti, t.userId)
      ]_vars

\* a refresh after a sweep has removed the record of its token: the run
\* without the sweep still holds the record, and rejects the token as well
C24_Witness ==
    \E r \in Reqs :
        /\ Done(r) /\ req[r].op = "refresh" /\ req[r].result = InvalidRefreshToken
        /\ \E rec \in unswept \ refreshTokens : rec.token = req[r].tok.jti
        /\ FindStoredIn(unswept, req[r].tok.jti, req[r].tok.userId) = {}

\* the refresh tokens handed out whose record is deleted or expired
DeadTokens ==
    {t \in issued : t.secret = "refresh" /\ FindStoredToken(t.jti, t.userId) = {}}

\* C25: ROTATED, REVOKED and EXPIRED are terminal: once the record of a token
\* id was deleted (by refresh, logout, invalidateAllSessions, resetPassword or
\* the sweep) or has expired, no step creates a record with that token id and
\* no refresh with that token succeeds: a refresh that arrives then is refused,
\* and the only refresh that succeeds for a token is the one whose deleteOne
\* removed its record.
C25_TerminalStates ==
    [][/\ \A t \in DeadTokens :
             /\ \A rec \in refreshTokens' \ refreshTokens : rec.token # t.jti
             /\ FindStoredToken(t.jti, t.userId)' = {}
             /\ \A r \in Reqs : RefreshStart(r, t) =>
                    req'[r].pc = "done" /\ req'[r].result = InvalidRefreshToken
       /\ \A r \in Reqs : RefreshCreate(r) => "deleted" \in req[r].hist
      ]_vars

\* C26: credential verification fails closed: when argon2.verify raises during
\* login, the login ends with InvalidCredentials (401), hands out no token and
\* creates no refresh record, and no raw internal error reaches the caller.
C26_VerifyFailsClosed ==
    [][\A r \in Reqs, e \in Emails, p \in Passwords :
          LoginVerifyFails(r, e, p) =>
              /\ req'[r].pc = "done"
              /\ req'[r].out = {} /\ issued' = issued
              /\ refreshTokens' = refreshTokens
              /\ req'[r].result = InvalidCredentials
              /\ ErrorHandler(req'[r].result) = 401
      ]_vars

\* C27: a reset token made for user u before u's token_version was incremented
\* (by a password reset or by invalidateAllSessions) is rejected by
\* resetPassword afterwards, even when its record is unexpired and unused.
C27_ResetTokenVersionChecked ==
    \A r \in Reqs :
        (req[r].op = "resetPassword" /\ Done(r) /\ "staleVersion" \in req[r].hist)
            => req[r].result = InvalidResetToken

\* the kind of a token the server has signed, by the call that made it
TokenKind(t) ==
    IF t.secret = "refresh" THEN "refresh"
    ELSE IF t.secret = "access" /\ t.jti = 0 THEN "access"
    ELSE IF t.secret = "access" THEN "reset"
    ELSE "other"

\* C28: token kinds are not interchangeable: requireAuth rejects a refresh
\* token and a reset token, refresh rejects an access token and a reset token,
\* resetPassword rejects an access token and a refresh token.
C28_TokenKindsSeparate ==
    \A r \in Reqs :
        /\ (req[r].op = "auth" /\ TokenKind(req[r].tok) \in {"refresh", "reset"})
              => (Done(r) /\ req[r].result # Returned)
        /\ (req[r].op = "refresh" /\ TokenKind(req[r].tok) \in {"access", "reset"})
              => (Done(r) /\ req[r].result = InvalidRefreshToken)
        /\ (req[r].op = "resetPassword" /\ TokenKind(req[r].tok) \in {"access", "refresh"})
              => (Done(r) /\ req[r].result = InvalidResetToken)

\* C29: of two resetPassword calls that carry the same reset token and run
\* concurrently, at most one changes the password: no call writes the password
\* for a token with which another call has already written it, so that
\* token_version is incremented once.
C29_ConcurrentResetOnce ==
    [][\A r \in Reqs :
          ResetUpdate(r) =>
              /\ req[r].tok \notin consumed
              /\ \A q \in Reqs \ {r} :
                    ~(/\ req[q].op = "resetPassword"
                      /\ req[q].tok = req[r].tok
                      /\ req[q].pc \in {"purge", "audit"})
      ]_vars

\* C30: from a directory with an active admin, no sequence or interleaving of
\* authenticated updateUser requests reaches a directory without an active
\* user of role admin.
C30_AdminNeverLost == ActiveAdmin

====
